---- MODULE Spec2Model ----
(***************************************************************************)
(* Model of package logger (src/logger.go): a facade over zap.             *)
(*                                                                         *)
(*   - New builds a zap logger from a Config (level threshold, encoder     *)
(*     profile, the two permanent fields service / environment).           *)
(*   - WithContext derives a logger carrying additional fields.            *)
(*   - InitGlobal / Get manage the package-level variable globalLogger,    *)
(*     which is read and written without any synchronisation.              *)
(*                                                                         *)
(* Loggers live in a heap (a sequence of objects, a pointer is an index,   *)
(* 0 is nil), so that sharing and mutation are observable.                 *)
(***************************************************************************)
EXTENDS Integers, Sequences, FiniteSets, TLC

VARIABLES
    heap,          \* allocated zap loggers; a *Logger is an index, 0 is nil
    origin,        \* history: how heap[i] was made (config, or parent + fields)
    out,           \* the last call made on a logger value and what it returned
    nNew,          \* number of calls of New made so far
    globalLogger,  \* the package variable globalLogger (0 = nil)
    pc,            \* per goroutine: position inside InitGlobal / Get / wrapper
    loc,           \* per goroutine: the locals of the call in progress
    nCalls,        \* number of package-level calls started so far
    lastInit,      \* history: the logger stored by the latest InitGlobal (0 none)
    nInitStored,   \* history: how many InitGlobal calls stored a logger
    nInitCalls,    \* history: how many InitGlobal calls were started
    raceSeen,      \* history: two Get calls were past the nil check at once
    halted         \* "no", or how the program ended: "panic" (nil *Logger
                   \* dereferenced) or "exit" (Fatal)

vars == <<heap, origin, out, nNew, globalLogger, pc, loc, nCalls,
          lastInit, nInitStored, nInitCalls, raceSeen, halted>>

globalVars == <<globalLogger, pc, loc, nCalls, lastInit, nInitStored,
                nInitCalls, raceSeen, halted>>

----------------------------------------------------------------------------
(* Bounds of the model. *)

MaxNew == 1        \* calls of New in the construction and derivation scenarios
MaxLoggers == 3    \* heap size in the derivation scenario
NProcs == 2        \* goroutines using the global logger
MaxGets == 3       \* calls started in a run without InitGlobal
MaxCalls == 4      \* package-level calls started in one run

----------------------------------------------------------------------------
(* Strings whose characters matter (Config.Level) are sequences of         *)
(* one-character strings; the others are plain strings, compared with =.   *)

LowerLetters == <<"a","b","c","d","e","f","g","h","i","j","k","l","m",
                  "n","o","p","q","r","s","t","u","v","w","x","y","z">>
UpperLetters == <<"A","B","C","D","E","F","G","H","I","J","K","L","M",
                  "N","O","P","Q","R","S","T","U","V","W","X","Y","Z">>

UpperChar(c) ==
    IF \E i \in 1..Len(LowerLetters) : LowerLetters[i] = c
    THEN UpperLetters[CHOOSE i \in 1..Len(LowerLetters) : LowerLetters[i] = c]
    ELSE c

\* strings.ToUpper
ToUpper(s) == IF s = <<>> THEN <<>> ELSE [i \in 1..Len(s) |-> UpperChar(s[i])]

\* the LogLevel constants
LevelDebug == <<"D","E","B","U","G">>
LevelInfo  == <<"I","N","F","O">>
LevelWarn  == <<"W","A","R","N">>
LevelError == <<"E","R","R","O","R">>

\* zapcore.Level values
DebugLevel == -1
InfoLevel == 0
WarnLevel == 1
ErrorLevel == 2
FatalLevel == 5

Severities == {DebugLevel, InfoLevel, WarnLevel, ErrorLevel}

\* variant: the switch without strings.ToUpper
ZapLevelOf_CaseSensitive(level) ==
    IF level = LevelDebug THEN DebugLevel
    ELSE IF level = LevelInfo THEN InfoLevel
    ELSE IF level = LevelWarn THEN WarnLevel
    ELSE IF level = LevelError THEN ErrorLevel
    ELSE InfoLevel

\* the switch of New: the zap level of a Config.Level string
ZapLevelOf(level) ==
    LET u == ToUpper(level) IN
    IF u = LevelDebug THEN DebugLevel
    ELSE IF u = LevelInfo THEN InfoLevel
    ELSE IF u = LevelWarn THEN WarnLevel
    ELSE IF u = LevelError THEN ErrorLevel
    ELSE InfoLevel

productionEncoderConfig ==
    [TimeKey |-> "timestamp", LevelKey |-> "level", NameKey |-> "logger",
     CallerKey |-> "caller", FunctionKey |-> "", MessageKey |-> "message",
     StacktraceKey |-> "stacktrace", EncodeLevel |-> "lowercase",
     EncodeTime |-> "ISO8601", EncodeDuration |-> "seconds",
     EncodeCaller |-> "short"]

developmentEncoderConfig ==
    [TimeKey |-> "T", LevelKey |-> "L", NameKey |-> "N",
     CallerKey |-> "C", FunctionKey |-> "", MessageKey |-> "M",
     StacktraceKey |-> "S", EncodeLevel |-> "capitalColor",
     EncodeTime |-> "ISO8601", EncodeDuration |-> "string",
     EncodeCaller |-> "short"]

\* variant: the environment compared without regard to its first letter's case
ZapConfigOf_Fold(cfg) ==
    IF cfg.Environment \in {"production", "Production"}
    THEN [Level |-> ZapLevelOf(cfg.Level), Development |-> FALSE,
          Encoding |-> "json", EncoderConfig |-> productionEncoderConfig]
    ELSE [Level |-> ZapLevelOf(cfg.Level), Development |-> TRUE,
          Encoding |-> "console", EncoderConfig |-> developmentEncoderConfig]

\* the zap.Config New fills in
ZapConfigOf(cfg) ==
    IF cfg.Environment = "production"
    THEN [Level |-> ZapLevelOf(cfg.Level), Development |-> FALSE,
          Encoding |-> "json", EncoderConfig |-> productionEncoderConfig]
    ELSE [Level |-> ZapLevelOf(cfg.Level), Development |-> TRUE,
          Encoding |-> "console", EncoderConfig |-> developmentEncoderConfig]

Field(k, v) == [key |-> k, val |-> v]

\* variant: the environment field holds the resolved profile's name
BaseFields_Profile(cfg) ==
    <<Field("service", cfg.ServiceName),
      Field("environment",
            IF cfg.Environment = "production" THEN "production" ELSE "development")>>

\* the two fields New attaches
BaseFields(cfg) ==
    <<Field("service", cfg.ServiceName), Field("environment", cfg.Environment)>>

\* the zap logger New returns on success: zapConfig.Build(...).With(...)
BuildLogger(cfg) ==
    LET zc == ZapConfigOf(cfg) IN
    [level |-> zc.Level, development |-> zc.Development,
     encoding |-> zc.Encoding, enc |-> zc.EncoderConfig,
     callerSkip |-> 1, stackLevel |-> ErrorLevel,
     fields |-> BaseFields(cfg)]

\* whether New returns an error: only when zapConfig.Build does
NewFails(cfg, buildOk) == ~buildOk

Nil == 0
NoCfg == [Level |-> <<>>, Environment |-> "-", ServiceName |-> "-"]
NoEntry == [written |-> FALSE]

\* zap's level check and entry encoding for l.Debug/Info/Warn/Error(msg, fs)
LevelEnabled(lg, sev) == sev >= lg.level

EntryOf(lg, sev, msg, fs) ==
    IF LevelEnabled(lg, sev)
    THEN [written |-> TRUE, level |-> sev, message |-> msg,
          encoding |-> lg.encoding, enc |-> lg.enc,
          stack |-> (sev >= lg.stackLevel),
          fields |-> lg.fields \o fs]
    ELSE NoEntry

\* variant: the child shares the parent's field buffer, which grows in place
HeapWith_InPlace(h, parent, fs) ==
    Append([h EXCEPT ![parent].fields = h[parent].fields \o fs],
           [h[parent] EXCEPT !.fields = h[parent].fields \o fs])

\* variant: a supplied field replaces an inherited field with the same key
HeapWith_Overwrite(h, parent, fs) ==
    LET kept == SelectSeq(h[parent].fields,
                          LAMBDA f : \A i \in 1..Len(fs) : fs[i].key # f.key)
    IN Append(h, [h[parent] EXCEPT !.fields = kept \o fs])

\* the heap after zap's With(fields) on heap[parent]: a clone with the
\* fields appended is allocated, the parent object is left alone
HeapWith(h, parent, fs) ==
    Append(h, [h[parent] EXCEPT !.fields = h[parent].fields \o fs])

----------------------------------------------------------------------------
(* Inputs. *)

LevelStrings ==
    { LevelDebug, <<"d","e","b","u","g">>, <<"I","n","f","o">>,
      LevelWarn, <<"w","a","r","n">>, LevelError,
      <<>>, <<"T","R","A","C","E">>, <<"W","A","R","N","I","N","G">> }

Environments == {"production", "Production", "development", ""}

ServiceNames == {"svc", ""}

Configs ==
    [Level : LevelStrings, Environment : Environments, ServiceName : ServiceNames]

DeriveConfigs ==
    { [Level |-> LevelInfo, Environment |-> "production", ServiceName |-> "svc"],
      [Level |-> <<"d","e","b","u","g">>, Environment |-> "", ServiceName |-> "api"] }

fa == Field("a", "1")
fb == Field("b", "2")
fdup == Field("service", "other")

FieldLists == { <<>>, <<fa>>, <<fa, fb>>, <<fdup>> }
CallFieldLists == { <<>>, <<fb>> }

NoOut ==
    [op |-> "none", cfg |-> NoCfg, ok |-> TRUE, logger |-> Nil, sev |-> InfoLevel,
     fields |-> <<>>, entry |-> NoEntry, err |-> FALSE]

\* history record of an allocation: who made it, from what, and the
\* object as it was when allocated
Made(via, cfg, parent, added, obj) ==
    [via |-> via, cfg |-> cfg, parent |-> parent, added |-> added,
     born |-> obj.fields]

----------------------------------------------------------------------------
(* Calls on logger values. *)

\* New(cfg), with the outcome of zapConfig.Build as an input
CallNew(cfg, buildOk) ==
    /\ nNew' = nNew + 1
    /\ IF NewFails(cfg, buildOk)
       THEN /\ UNCHANGED <<heap, origin>>
            /\ out' = [NoOut EXCEPT !.op = "New", !.cfg = cfg, !.ok = buildOk,
                                    !.err = TRUE]
       ELSE /\ heap' = Append(heap, BuildLogger(cfg))
            /\ origin' = Append(origin, Made("New", cfg, Nil, <<>>, BuildLogger(cfg)))
            /\ out' = [NoOut EXCEPT !.op = "New", !.cfg = cfg, !.ok = buildOk,
                                    !.logger = Len(heap) + 1]
    /\ UNCHANGED globalVars

\* l.WithContext(fields...)
CallWithContext(l, fs) ==
    /\ heap' = HeapWith(heap, l, fs)
    /\ origin' = Append(origin, Made("WithContext", NoCfg, l, fs,
                                      HeapWith(heap, l, fs)[Len(heap) + 1]))
    /\ out' = [NoOut EXCEPT !.op = "WithContext", !.logger = Len(heap) + 1,
                            !.fields = fs]
    /\ UNCHANGED <<nNew, globalVars>>

\* l.Debug / l.Info / l.Warn / l.Error (msg, fields...)
CallLog(l, sev, fs) ==
    /\ out' = [NoOut EXCEPT !.op = "Log", !.logger = l, !.sev = sev,
                            !.fields = fs,
                            !.entry = EntryOf(heap[l], sev, "msg", fs)]
    /\ UNCHANGED <<heap, origin, nNew, globalVars>>

----------------------------------------------------------------------------
(* Construction scenario: New on every configuration, then leveled calls.  *)

Procs == 1..NProcs

NoLoc ==
    [call |-> "none", cfg |-> NoCfg, buildOk |-> TRUE, built |-> FALSE,
     logger |-> Nil, err |-> FALSE, seen |-> Nil, ret |-> Nil,
     sev |-> InfoLevel, fields |-> <<>>, entry |-> NoEntry, derived |-> Nil,
     startGlobal |-> Nil, startStored |-> 0, quiet |-> TRUE, startRace |-> FALSE]

Init ==
    /\ heap = <<>>
    /\ origin = <<>>
    /\ out = NoOut
    /\ nNew = 0
    /\ globalLogger = Nil
    /\ pc = [p \in Procs |-> "idle"]
    /\ loc = [p \in Procs |-> NoLoc]
    /\ nCalls = 0
    /\ lastInit = Nil
    /\ nInitStored = 0
    /\ nInitCalls = 0
    /\ raceSeen = FALSE
    /\ halted = "no"

Construct ==
    /\ nNew < MaxNew
    /\ \E cfg \in Configs, buildOk \in BOOLEAN : CallNew(cfg, buildOk)

Log ==
    \E l \in 1..Len(heap), sev \in Severities, fs \in CallFieldLists :
        CallLog(l, sev, fs)

NextNew == Construct \/ Log

SpecNew == Init /\ [][NextNew]_vars

----------------------------------------------------------------------------
(* Derivation scenario: loggers built and derived from one another.        *)

ConstructRoot ==
    /\ Len(heap) < MaxLoggers
    /\ nNew < MaxNew
    /\ \E cfg \in DeriveConfigs, buildOk \in BOOLEAN : CallNew(cfg, buildOk)

Derive ==
    /\ Len(heap) < MaxLoggers
    /\ \E l \in 1..Len(heap), fs \in FieldLists : CallWithContext(l, fs)

NextDerive == ConstructRoot \/ Derive \/ Log

SpecDerive == Init /\ [][NextDerive]_vars

----------------------------------------------------------------------------
(* The global logger.  Every goroutine p runs package-level calls one at a *)
(* time; a call is a sequence of steps, one per access to globalLogger,    *)
(* and the steps of different goroutines interleave freely: the code uses  *)
(* no lock, no sync.Once and no atomic.                                    *)

\* variant: the default configuration with the production environment
DefaultConfig_Production ==
    [Level |-> LevelInfo, Environment |-> "production", ServiceName |-> "gath-stack"]

DefaultConfig ==
    [Level |-> LevelInfo, Environment |-> "development", ServiceName |-> "gath-stack"]

InitConfigs ==
    { [Level |-> LevelWarn, Environment |-> "production", ServiceName |-> "api"],
      [Level |-> <<"d","e","b","u","g">>, Environment |-> "staging", ServiceName |-> "web"] }

GetCalls == {"Get", "Log", "WithFields"}

\* Debug, Info, Warn, Error and Fatal
WrapperLevels == Severities \cup {FatalLevel}

Others(p) == Procs \ {p}

Quiet(p) == \A q \in Others(p) : pc[q] \in {"idle", "done"}

CanStart(p) == halted = "no" /\ pc[p] = "idle" /\ nCalls < MaxCalls

\* variant: Get constructs a default logger on every call
GetNeedsInit_Always(seen) == TRUE

\* the condition of Get's if statement, on the value read from globalLogger
GetNeedsInit(seen) == seen = Nil

\* what Get's final `return globalLogger` may yield: the variable as it is
\* now, or the value this goroutine last read from or wrote to it (the two
\* unsynchronised accesses may be merged by the compiler)
GetReturnValues(p) ==
    {globalLogger, IF loc[p].built THEN loc[p].logger ELSE loc[p].seen}

\* InitGlobal(cfg): New, `if err != nil { return err }`, and otherwise
\* `globalLogger = logger; return nil`.  New touches nothing shared, so the
\* call has a single shared access, the store, and is one step.
InitGlobal ==
    \E p \in Procs, cfg \in InitConfigs, buildOk \in BOOLEAN :
        /\ CanStart(p)
        /\ nCalls' = nCalls + 1
        /\ nInitCalls' = nInitCalls + 1
        /\ IF NewFails(cfg, buildOk)
           THEN /\ UNCHANGED <<heap, origin, globalLogger, lastInit, nInitStored>>
                /\ loc' = [loc EXCEPT ![p] =
                             [NoLoc EXCEPT !.call = "InitGlobal", !.cfg = cfg,
                                           !.err = TRUE,
                                           !.startGlobal = globalLogger]]
           ELSE /\ heap' = Append(heap, BuildLogger(cfg))
                /\ origin' = Append(origin,
                                Made("InitGlobal", cfg, Nil, <<>>, BuildLogger(cfg)))
                /\ globalLogger' = Len(heap) + 1
                /\ lastInit' = Len(heap) + 1
                /\ nInitStored' = nInitStored + 1
                /\ loc' = [loc EXCEPT ![p] =
                             [NoLoc EXCEPT !.call = "InitGlobal", !.cfg = cfg,
                                           !.logger = Len(heap) + 1,
                                           !.startGlobal = globalLogger]]
        /\ nNew' = nNew + 1
        /\ pc' = [pc EXCEPT ![p] = "done"]
        /\ UNCHANGED <<out, raceSeen, halted>>

\* Get() is called, directly or by a wrapper: it reads globalLogger for
\* `if globalLogger == nil` and, when it read nil, runs
\* `logger, _ := New(cfg)` with the default configuration (local work)
StartGet(p, call, sev, fs, buildOk) ==
    /\ CanStart(p)
    /\ nCalls' = nCalls + 1
    /\ IF GetNeedsInit(globalLogger)
       THEN /\ nNew' = nNew + 1
            /\ IF NewFails(DefaultConfig, buildOk)
               THEN /\ UNCHANGED <<heap, origin>>
                    /\ loc' = [loc EXCEPT ![p] =
                                 [NoLoc EXCEPT !.call = call, !.sev = sev, !.fields = fs,
                                               !.seen = globalLogger,
                                               !.startGlobal = globalLogger,
                                               !.startStored = nInitStored,
                                               !.quiet = Quiet(p),
                                               !.startRace = raceSeen,
                                               !.built = TRUE, !.buildOk = FALSE,
                                               !.logger = Nil]]
               ELSE /\ heap' = Append(heap, BuildLogger(DefaultConfig))
                    /\ origin' = Append(origin,
                                    Made("Get", DefaultConfig, Nil, <<>>,
                                         BuildLogger(DefaultConfig)))
                    /\ loc' = [loc EXCEPT ![p] =
                                 [NoLoc EXCEPT !.call = call, !.sev = sev, !.fields = fs,
                                               !.seen = globalLogger,
                                               !.startGlobal = globalLogger,
                                               !.startStored = nInitStored,
                                               !.quiet = Quiet(p),
                                               !.startRace = raceSeen,
                                               !.built = TRUE,
                                               !.logger = Len(heap) + 1]]
            /\ pc' = [pc EXCEPT ![p] = "get_store"]
       ELSE /\ buildOk
            /\ UNCHANGED <<heap, origin, nNew>>
            /\ loc' = [loc EXCEPT ![p] =
                         [NoLoc EXCEPT !.call = call, !.sev = sev, !.fields = fs,
                                       !.seen = globalLogger,
                                       !.startGlobal = globalLogger,
                                       !.startStored = nInitStored,
                                       !.quiet = Quiet(p),
                                       !.startRace = raceSeen]]
            /\ pc' = [pc EXCEPT ![p] = "get_ret"]
    /\ raceSeen' = (raceSeen \/ (GetNeedsInit(globalLogger) /\
                      \E q \in Others(p) : pc[q] = "get_store"))
    /\ UNCHANGED <<out, globalLogger, lastInit, nInitStored, nInitCalls, halted>>

CallGet ==
    \E p \in Procs, buildOk \in BOOLEAN : StartGet(p, "Get", InfoLevel, <<>>, buildOk)

CallWrapper ==
    \E p \in Procs, sev \in WrapperLevels, buildOk \in BOOLEAN :
        StartGet(p, "Log", sev, <<fa>>, buildOk)

CallWithFields ==
    \E p \in Procs, fs \in {<<fa>>, <<fdup>>}, buildOk \in BOOLEAN :
        StartGet(p, "WithFields", InfoLevel, fs, buildOk)

\* Get: `globalLogger = logger`, whatever globalLogger holds by now
GetStore ==
    \E p \in Procs :
        /\ halted = "no"
        /\ pc[p] = "get_store"
        /\ globalLogger' = loc[p].logger
        /\ pc' = [pc EXCEPT ![p] = "get_ret"]
        /\ UNCHANGED <<heap, origin, out, nNew, loc, nCalls, lastInit,
                       nInitStored, nInitCalls, raceSeen, halted>>

\* Get: `return globalLogger`, and what the wrapper does with the result
\* (local work): nothing for Get itself, Get().X(msg, fields...) for
\* Debug/Info/Warn/Error/Fatal, Get().WithContext(fields...) for WithFields.
\* Calling a method of zap.Logger through a nil *Logger panics; Fatal exits.
GetReturn ==
    \E p \in Procs :
        /\ halted = "no"
        /\ pc[p] = "get_ret"
        /\ \E r \in GetReturnValues(p) :
            CASE loc[p].call = "Get" ->
                    /\ loc' = [loc EXCEPT ![p].ret = r]
                    /\ UNCHANGED <<heap, origin, halted>>
              [] loc[p].call # "Get" /\ r = Nil ->
                    /\ loc' = [loc EXCEPT ![p].ret = r]
                    /\ halted' = "panic"
                    /\ UNCHANGED <<heap, origin>>
              [] loc[p].call = "Log" /\ r # Nil ->
                    /\ loc' = [loc EXCEPT ![p].ret = r,
                                 ![p].entry = EntryOf(heap[r], loc[p].sev, "msg",
                                                      loc[p].fields)]
                    /\ halted' = IF loc[p].sev = FatalLevel THEN "exit" ELSE "no"
                    /\ UNCHANGED <<heap, origin>>
              [] OTHER ->
                    /\ heap' = HeapWith(heap, r, loc[p].fields)
                    /\ origin' = Append(origin,
                                    Made("WithContext", NoCfg, r, loc[p].fields,
                                         HeapWith(heap, r, loc[p].fields)[Len(heap) + 1]))
                    /\ loc' = [loc EXCEPT ![p].ret = r, ![p].derived = Len(heap) + 1]
                    /\ UNCHANGED halted
        /\ pc' = [pc EXCEPT ![p] = "done"]
        /\ UNCHANGED <<out, nNew, globalLogger, nCalls, lastInit,
                       nInitStored, nInitCalls, raceSeen>>

\* the caller has the result and goes on
Finish ==
    \E p \in Procs :
        /\ halted = "no"
        /\ pc[p] = "done"
        /\ pc' = [pc EXCEPT ![p] = "idle"]
        /\ loc' = [loc EXCEPT ![p] = NoLoc]
        /\ UNCHANGED <<heap, origin, out, nNew, globalLogger, nCalls, lastInit,
                       nInitStored, nInitCalls, raceSeen, halted>>

Next ==
    \/ InitGlobal
    \/ CallGet \/ CallWrapper \/ CallWithFields
    \/ GetStore \/ GetReturn
    \/ Finish

Spec == Init /\ [][Next]_vars

\* a single-threaded run: only goroutine 1 makes calls
OnlyMain == \A p \in Procs : p # 1 => pc'[p] = "idle"

NextSeq ==
    \/ InitGlobal /\ OnlyMain
    \/ CallGet /\ OnlyMain
    \/ CallWrapper /\ OnlyMain
    \/ CallWithFields /\ OnlyMain
    \/ GetStore /\ OnlyMain
    \/ GetReturn /\ OnlyMain
    \/ Finish /\ OnlyMain

SpecSeq == Init /\ [][NextSeq]_vars

\* runs of concurrent Get calls in which InitGlobal is never called
NextGet ==
    \/ nCalls < MaxGets /\ CallGet
    \/ GetStore
    \/ GetReturn
    \/ Finish

SpecGet == Init /\ [][NextGet]_vars

----------------------------------------------------------------------------
(* Properties.                                                             *)

LowerChar(c) ==
    IF \E i \in 1..Len(UpperLetters) : UpperLetters[i] = c
    THEN LowerLetters[CHOOSE i \in 1..Len(UpperLetters) : UpperLetters[i] = c]
    ELSE c

SameIgnoringCase(a, b) ==
    /\ Len(a) = Len(b)
    /\ \A i \in 1..Len(a) : LowerChar(a[i]) = LowerChar(b[i])

\* the threshold a level string stands for: the level it names, case
\* ignored, and INFO when it names none
Threshold(L) ==
    IF SameIgnoringCase(L, <<"d","e","b","u","g">>) THEN -1
    ELSE IF SameIgnoringCase(L, <<"w","a","r","n">>) THEN 1
    ELSE IF SameIgnoringCase(L, <<"e","r","r","o","r">>) THEN 2
    ELSE 0

RECURSIVE RootOf(_)
RootOf(i) == IF origin[i].parent = Nil THEN i ELSE RootOf(origin[i].parent)

RECURSIVE Depth(_)
Depth(i) == IF origin[i].parent = Nil THEN 0 ELSE 1 + Depth(origin[i].parent)

\* the encoding and the key names of a logger or of a written entry
Profile(x) ==
    <<x.encoding, x.enc.TimeKey, x.enc.LevelKey, x.enc.NameKey,
      x.enc.CallerKey, x.enc.MessageKey, x.enc.StacktraceKey>>

JsonProfile ==
    <<"json", "timestamp", "level", "logger", "caller", "message", "stacktrace">>

ConsoleProfile == <<"console", "T", "L", "N", "C", "M", "S">>

ProfileFor(E) == IF E = "production" THEN JsonProfile ELSE ConsoleProfile

\* C1: a leveled call on a logger built from level string L is written iff
\* its severity is at least the threshold L stands for (case ignored, INFO
\* for any string naming no level), and New returns an error only when the
\* engine's build does, never because of L.
C1_LevelFilter ==
    /\ out.op = "Log" =>
         (out.entry.written <=>
            out.sev >= Threshold(origin[RootOf(out.logger)].cfg.Level))
    /\ out.op = "New" => (out.err <=> ~out.ok)

\* a logger built with "warn" has suppressed an Info call
C1_Witness ==
    /\ out.op = "Log"
    /\ origin[out.logger].cfg.Level = <<"w","a","r","n">>
    /\ out.sev = InfoLevel
    /\ ~out.entry.written

\* C2: a logger built by New, and every entry it writes, uses the JSON
\* profile and key names iff Environment is exactly "production", and the
\* console profile and key names otherwise, whatever Level and ServiceName
\* are; New with a working engine always returns a logger.
C2_ProfileSelection ==
    /\ \A i \in 1..Len(heap) :
         origin[i].via = "New" =>
            Profile(heap[i]) = ProfileFor(origin[i].cfg.Environment)
    /\ (out.op = "Log" /\ out.entry.written) =>
         Profile(out.entry) = ProfileFor(origin[RootOf(out.logger)].cfg.Environment)
    /\ (out.op = "New" /\ out.ok) => (out.logger # Nil /\ ~out.err)

\* a logger built with Environment "Production" has written a console entry
C2_Witness ==
    /\ out.op = "Log"
    /\ out.entry.written
    /\ origin[out.logger].cfg.Environment = "Production"
    /\ Profile(out.entry) = ConsoleProfile

\* C3: every logger reached from New(cfg) through any number of WithContext
\* derivations, and every entry it writes, carries service = cfg.ServiceName
\* and environment = cfg.Environment (the raw string) as its first two fields.
C3_ServiceFields ==
    LET Carries(fields, cfg) ==
            /\ Len(fields) >= 2
            /\ fields[1] = [key |-> "service", val |-> cfg.ServiceName]
            /\ fields[2] = [key |-> "environment", val |-> cfg.Environment]
    IN
    /\ \A i \in 1..Len(heap) : Carries(heap[i].fields, origin[RootOf(i)].cfg)
    /\ (out.op = "Log" /\ out.entry.written) =>
         Carries(out.entry.fields, origin[RootOf(out.logger)].cfg)

\* a logger two derivations away from New with Environment "" wrote an entry
C3_Witness ==
    /\ out.op = "Log"
    /\ out.entry.written
    /\ Depth(out.logger) = 2
    /\ origin[RootOf(out.logger)].cfg.Environment = ""
    /\ out.entry.fields[2] = [key |-> "environment", val |-> ""]

\* C4: deriving never changes an existing logger: every logger still has
\* the fields it had when it was allocated, and an entry written from it
\* has exactly those fields followed by the call's own.
C4_ParentUnchanged ==
    /\ \A i \in 1..Len(heap) : heap[i].fields = origin[i].born
    /\ (out.op = "Log" /\ out.entry.written) =>
         out.entry.fields = origin[out.logger].born \o out.fields

\* a parent with two children that received different fields wrote an
\* entry that has none of them
C4_Witness ==
    /\ Len(heap) = 3
    /\ origin[2].parent = 1 /\ origin[2].added = <<fa>>
    /\ origin[3].parent = 1 /\ origin[3].added = <<fa, fb>>
    /\ out.op = "Log" /\ out.logger = 1 /\ out.entry.written
    /\ out.fields = <<>>
    /\ Len(out.entry.fields) = 2
    /\ heap[2].fields # heap[3].fields

RECURSIVE ChainFields(_)
ChainFields(i) ==
    IF origin[i].parent = Nil
    THEN <<[key |-> "service", val |-> origin[i].cfg.ServiceName],
           [key |-> "environment", val |-> origin[i].cfg.Environment]>>
    ELSE ChainFields(origin[i].parent) \o origin[i].added

\* C5: the fields of a derived logger are its parent's fields followed by
\* the supplied fields in the order given, along the whole chain of
\* derivations, with fields of an already present key kept as further
\* occurrences; written entries have these fields followed by the call's.
C5_AppendOrder ==
    /\ \A i \in 1..Len(heap) : heap[i].fields = ChainFields(i)
    /\ (out.op = "Log" /\ out.entry.written) =>
         out.entry.fields = ChainFields(out.logger) \o out.fields

\* WithContext(a).WithContext(service=other) wrote an entry with both
\* occurrences of service, the new one last
C5_Witness ==
    /\ Len(heap) = 3
    /\ origin[2].parent = 1 /\ origin[2].added = <<fa>>
    /\ origin[3].parent = 2 /\ origin[3].added = <<fdup>>
    /\ out.op = "Log" /\ out.logger = 3 /\ out.entry.written
    /\ out.fields = <<>>
    /\ Len(out.entry.fields) = 4
    /\ out.entry.fields[1].key = "service"
    /\ out.entry.fields[3] = fa
    /\ out.entry.fields[4] = fdup

----------------------------------------------------------------------------
(* Properties of the global logger. *)

Returned(p) == pc[p] = "done" /\ loc[p].call \in GetCalls

\* the logger New makes of (INFO, development, gath-stack)
IsDefaultLogger(lg) ==
    /\ lg.level = 0
    /\ Profile(lg) = ConsoleProfile
    /\ lg.fields = <<[key |-> "service", val |-> "gath-stack"],
                     [key |-> "environment", val |-> "development"]>>

BuiltByGet == {i \in 1..Len(heap) : origin[i].via = "Get"}

\* C6, as claimed: a Get (alone or inside a wrapper) that starts after two
\* or more InitGlobal calls have stored their loggers, and during which no
\* InitGlobal stores, returns the logger of the latest of them.
C6_LatestInitWins ==
    \A p \in Procs :
        (Returned(p) /\ loc[p].startStored >= 2 /\ nInitStored = loc[p].startStored)
            => loc[p].ret = lastInit

FailedInitGlobal(p) ==
    pc[p] = "idle" /\ pc'[p] = "done" /\ loc'[p].call = "InitGlobal" /\ loc'[p].err

FailedGetStore(p) ==
    pc[p] = "get_store" /\ pc'[p] = "get_ret" /\ loc[p].logger = Nil

\* C8, as claimed: a failing InitGlobal leaves the global as it was, and a
\* Get whose construction failed leaves the global nil and returns nil.
C8_FailureKeepsGlobal ==
    [][\A p \in Procs :
          /\ FailedInitGlobal(p) => globalLogger' = globalLogger
          /\ FailedGetStore(p) => (globalLogger' = globalLogger /\ globalLogger' = Nil)
          /\ (pc[p] = "get_ret" /\ pc'[p] = "done" /\ loc[p].built /\ loc[p].logger = Nil)
                => loc'[p].ret = Nil]_vars

C10_InitNotReplaced ==
    nInitStored > 0 =>
        (globalLogger # Nil /\ origin[globalLogger].via = "InitGlobal")

====
